---- MODULE Spec2Model ----
(***************************************************************************)
(* Model of the external-command orchestration scripts of the repository:  *)
(*   src/react-sre-project/scripts/deploy_app.py        (script "deploy")  *)
(*   src/react-sre-project/scripts/minikube_control.py  (script "minikube")*)
(*                                                                         *)
(* The scripts are sequential programs.  The model is a program-counter    *)
(* machine: pc names the statement that executes next, the locals of each  *)
(* function are variables, and the environment (the external processes,    *)
(* the file system) is the nondeterminism of the actions.                  *)
(***************************************************************************)
EXTENDS Integers, Sequences, FiniteSets, TLC

VARIABLES
    script,       \* which script runs: "deploy" or "minikube"
    pc,           \* the statement executed next
    rc_cmd,       \* run_command: the command argument
    rc_retry,     \* run_command: the retry argument
    rc_timeout,   \* run_command: the timeout argument, in seconds
    rc_attempt,   \* run_command: the loop variable `attempt`
    rc_return,    \* run_command: the statement its caller resumes at
    rc_result,    \* run_command: the value returned to the caller
    alive,        \* number of live processes spawned by subprocess.run
    attempts,     \* processes spawned by the current run_command call
    sleeps,       \* time.sleep(5) backoffs of the current run_command call
    outcomes,     \* how each attempt of the current call ended, in order
    last_stdout,  \* stdout captured from the latest attempt that exited
    timing,       \* TRUE while a wait loop measures time against a deadline
    elapsed,      \* time.time() - start_time of that wait loop, in seconds
    issued,       \* the commands whose process was started so far
    args,         \* deploy_app.main: the parsed command-line flags
    success,      \* deploy_app.main: the local `success`
    main_result,  \* deploy_app.main: the value returned, "none" before that
    exit_code,    \* the status given to sys.exit, -1 before that
    stage_result, \* the value returned by the latest stage function
    started,      \* the stage functions called so far, in order
    failed,       \* the stage functions that returned False
    cms_return,   \* check_minikube_status: the statement its caller resumes at
    cms_result,   \* check_minikube_status: the value returned
    ns_i,         \* create_namespaces: position in the namespaces list
    apply_input,  \* create_namespaces: the text piped to each kubectl apply
    prometheus_ready, \* deploy_monitoring: the local of the same name
    grafana_ready,    \* deploy_monitoring: the local of the same name
    forwards,     \* setup_port_forwarding: state of each Popen'ed process
    mk_action,    \* minikube_control.main: args.action
    environ,      \* TRUE once os.environ["WZEGH_CONFIGURED"] has been set
    start_result, \* start_minikube: the value returned, "none" before that
    stop_result,  \* stop_minikube: the value returned, "none" before that
    stop_return,  \* stop_minikube: the statement its caller resumes at
    missing,      \* the prerequisite files and directories found absent
    stop_saw      \* stop_minikube: what its status query showed

rc_vars == <<rc_cmd, rc_retry, rc_timeout, rc_attempt, rc_return, rc_result,
             attempts, sleeps, outcomes, last_stdout>>

time_vars == <<timing, elapsed>>

main_vars == <<args, success, main_result, exit_code, stage_result, started, failed>>

cms_vars == <<cms_return, cms_result>>

stage_vars == <<ns_i, apply_input, prometheus_ready, grafana_ready, forwards>>

mk_vars == <<mk_action, environ, start_result, stop_result, stop_return>>

\* What the run has observed of its surroundings.
obs_vars == <<missing, stop_saw>>

\* Everything outside run_command's frame and the process table.
caller_vars == <<main_vars, cms_vars, stage_vars, mk_vars, obs_vars>>

vars == <<script, pc, rc_vars, alive, time_vars, issued, caller_vars>>

----------------------------------------------------------------------------
(* Bounds of the model.                                                    *)

\* Largest retry argument the harness passes to run_command.
MaxRetry == 3
\* Longest captured stdout, in characters, the harness lets a process print.
MaxOutLen == 2

----------------------------------------------------------------------------
(* Values.                                                                 *)

Scripts == {"deploy", "minikube"}

\* Python's None and a str, kept apart so that "" is not None.
NoneVal == [isNone |-> TRUE, text |-> <<>>]
Str(s)  == [isNone |-> FALSE, text |-> s]

\* Characters of the captured output: one whitespace, one printable.
Chars == {" ", "x"}

RECURSIVE SeqsUpTo(_, _)
SeqsUpTo(S, n) ==
    IF n = 0 THEN {<<>>}
    ELSE LET shorter == SeqsUpTo(S, n - 1)
         IN  shorter \cup {Append(s, c) : s \in {t \in shorter : Len(t) = n - 1}, c \in S}

Outputs == SeqsUpTo(Chars, MaxOutLen)

\* str.strip(): drop leading and trailing whitespace.
RECURSIVE lstrip(_)
lstrip(s) == IF s # <<>> /\ Head(s) = " " THEN lstrip(Tail(s)) ELSE s

RECURSIVE rstrip(_)
rstrip(s) ==
    IF s # <<>> /\ s[Len(s)] = " " THEN rstrip(SubSeq(s, 1, Len(s) - 1)) ELSE s

strip(s) == rstrip(lstrip(s))

\* Time passes: it is observed only as time.time() - start_time inside a wait
\* loop, so it is tracked only while such a loop runs.
Pass(d) == elapsed' = IF timing THEN elapsed + d ELSE elapsed

----------------------------------------------------------------------------
(* run_command(command, timeout, retry): both scripts.                     *)

\* Captured text is a sequence of tokens: " " is whitespace, a JSON document
\* is one token, every other token is a word.
JsonDocs ==
    {"{Host:Running}", "{Host:Stopped}", "{Host:Stopped,Kubelet:Running}", "{}", "[]"}

\* The tokens in which the word w occurs as a substring.
TokensWith(w) ==
    IF w = "Running"
    THEN {"Running", "{Host:Running}", "{Host:Stopped,Kubelet:Running}"}
    ELSE IF w = "Pending" THEN {"Pending"}
    ELSE {w}

\* Python's `w in text`.
contains(text, w) == \E i \in 1 .. Len(text) : text[i] \in TokensWith(w)

\* Python's truth value of a returned str-or-None: None and "" are false.
truthy(v) == ~v.isNone /\ v.text # <<>>

\* The command lines of the two scripts.
StatusCmd == "minikube status -o json"
PromPodsCmd == "kubectl get pods -n monitoring -l app=prometheus"
GrafPodsCmd == "kubectl get pods -n monitoring -l app=grafana"
AppPodsCmd == "kubectl get pods -n react-sre-app -l app=react-sre-app"

\* What `minikube status -o json` may print.
StatusOutputs ==
    { <<>>, <<" ">>, <<"{Host:Running}">>, <<"{Host:Running}", " ">>,
      <<"{Host:Stopped}">>, <<"{Host:Stopped,Kubelet:Running}">>, <<"{}">>, <<"[]">>,
      <<"Running">>, <<"x", " ", "Running">>, <<"Stopped">> }

\* What a pod-phase query may print: the phases of the selected pods.
PhaseOutputs ==
    { <<>>, <<"Running">>, <<"Pending">>, <<"Failed">>,
      <<"Running", " ", "Running">>, <<"Running", " ", "Pending">>,
      <<"Running", " ", "Failed">> }

\* The stdout a process of command c may print.
Stdouts(c) ==
    IF c = "cmd" THEN Outputs
    ELSE IF c = StatusCmd THEN StatusOutputs
    ELSE IF c \in {PromPodsCmd, GrafPodsCmd, AppPodsCmd} THEN PhaseOutputs
    ELSE {<<>>, <<"x">>}

\* How long a process that exits by itself may run, given the timeout t.
Durations(t) == {0, t}

\* An off-by-one loop bound: one iteration too many.
range_has_inclusive(attempt, retry) == attempt <= retry

\* `for attempt in range(retry)`: is there an iteration for this value?
range_has(attempt, retry) == attempt < retry

\* `if result.returncode == 0`
returncode_ok(returncode) == returncode = 0

\* The return statement without the strip().
returned_stdout_raw(stdout) == Str(stdout)

\* `return result.stdout.strip()`
returned_stdout(stdout) == Str(strip(stdout))

\* Is the failed attempt followed by time.sleep(5)?  deploy_app.py guards the
\* sleep with `if attempt < retry - 1`; minikube_control.py sleeps always.
backoff(s, attempt, retry) ==
    IF s = "deploy" THEN attempt < retry - 1 ELSE TRUE

\* The fixed backoff, time.sleep(5).
BackoffSeconds == 5

\* A caller's `run_command(c, timeout=t, retry=n)`, resuming at ret.
run_command(c, t, n, ret) ==
    /\ rc_cmd' = c
    /\ rc_timeout' = t
    /\ rc_retry' = n
    /\ rc_attempt' = 0
    /\ rc_return' = ret
    /\ rc_result' = NoneVal
    /\ attempts' = 0
    /\ sleeps' = 0
    /\ outcomes' = <<>>
    /\ last_stdout' = <<>>
    /\ pc' = "rc_for"

\* The loop head `for attempt in range(retry)`.
rc_for ==
    /\ pc = "rc_for"
    /\ pc' = IF range_has(rc_attempt, rc_retry) THEN "rc_run" ELSE "rc_failed"
    /\ UNCHANGED <<script, rc_vars, alive, time_vars,
                   issued, caller_vars>>

\* subprocess.run starts the process.
rc_spawn ==
    /\ pc = "rc_run"
    /\ alive' = alive + 1
    /\ attempts' = attempts + 1
    /\ issued' = issued \cup {rc_cmd}
    /\ pc' = "rc_wait"
    /\ UNCHANGED <<script, rc_cmd, rc_retry, rc_timeout, rc_attempt, rc_return,
                   rc_result, sleeps, outcomes, last_stdout, time_vars,
                   caller_vars>>

\* subprocess.run cannot start the process (the executable is missing, the
\* working directory is missing): it raises an OSError, which run_command's
\* `except subprocess.TimeoutExpired` does not catch.
rc_spawn_error ==
    /\ pc = "rc_run"
    /\ outcomes' = Append(outcomes, "oserror")
    /\ pc' = "raised"
    /\ UNCHANGED <<script, rc_cmd, rc_retry, rc_timeout, rc_attempt, rc_return,
                   rc_result, attempts, sleeps, last_stdout, alive, time_vars,
                   issued, caller_vars>>

\* What follows a failed attempt: the backoff sleep or the next iteration.
after_failure ==
    IF backoff(script, rc_attempt, rc_retry)
    THEN /\ pc' = "rc_sleep"
         /\ UNCHANGED rc_attempt
    ELSE /\ pc' = "rc_for"
         /\ rc_attempt' = rc_attempt + 1

\* The exit statuses a process may end with.
ReturnCodes == {0, 1}

\* The process exits within the timeout: `return result.stdout.strip()` on
\* status 0, otherwise log WARN and go on as after any failed attempt.
rc_exit ==
    /\ pc = "rc_wait"
    /\ \E returncode \in ReturnCodes, out \in Stdouts(rc_cmd),
          d \in Durations(rc_timeout) :
          /\ last_stdout' = out
          /\ Pass(d)
          /\ outcomes' = Append(outcomes, IF returncode = 0 THEN "zero" ELSE "nonzero")
          /\ IF returncode_ok(returncode)
             THEN /\ rc_result' = returned_stdout(out)
                  /\ pc' = rc_return
                  /\ UNCHANGED rc_attempt
             ELSE /\ after_failure
                  /\ UNCHANGED rc_result
    /\ alive' = alive - 1
    /\ UNCHANGED <<script, rc_cmd, rc_retry, rc_timeout, rc_return,
                   attempts, sleeps, timing,
                   issued, caller_vars>>

\* A wait that gives up on the timeout and leaves the child running.
leave_on_timeout == FALSE

\* Does subprocess.run kill the child when the timeout expires?
kill_on_timeout == TRUE

\* The timeout expires: subprocess.run kills the child, waits for it and
\* raises TimeoutExpired, which run_command catches.
rc_timeout_expired ==
    /\ pc = "rc_wait"
    /\ Pass(rc_timeout)
    /\ alive' = IF kill_on_timeout THEN alive - 1 ELSE alive
    /\ outcomes' = Append(outcomes, "timeout")
    /\ after_failure
    /\ UNCHANGED <<script, rc_cmd, rc_retry, rc_timeout, rc_return, rc_result,
                   attempts, sleeps, last_stdout, timing,
                   issued, caller_vars>>

\* time.sleep(5), then the next iteration.
rc_sleep ==
    /\ pc = "rc_sleep"
    /\ sleeps' = sleeps + 1
    /\ Pass(BackoffSeconds)
    /\ rc_attempt' = rc_attempt + 1
    /\ pc' = "rc_for"
    /\ UNCHANGED <<script, rc_cmd, rc_retry, rc_timeout, rc_return, rc_result,
                   attempts, outcomes, last_stdout, alive, timing,
                   issued, caller_vars>>

\* The loop is over: log ERROR and `return None`.
rc_failed ==
    /\ pc = "rc_failed"
    /\ rc_result' = NoneVal
    /\ pc' = rc_return
    /\ UNCHANGED <<script, rc_cmd, rc_retry, rc_timeout, rc_attempt, rc_return,
                   attempts, sleeps, outcomes, last_stdout, alive, time_vars,
                   issued, caller_vars>>

RunCommandStep ==
    \/ rc_for
    \/ rc_spawn
    \/ rc_spawn_error
    \/ rc_exit
    \/ rc_timeout_expired
    \/ rc_sleep
    \/ rc_failed

----------------------------------------------------------------------------
(* check_minikube_status(): both scripts.                                  *)

\* The default of run_command's retry parameter: 1 in deploy_app.py, 3 in
\* minikube_control.py.
default_retry(s) == IF s = "deploy" THEN 1 ELSE 3

\* json.loads(status): the parsed document, or the JSONDecodeError.
json_loads(text) ==
    IF Len(text) = 1 /\ text[1] \in JsonDocs
    THEN IF text[1] = "[]" THEN [kind |-> "array", Host |-> ""]
         ELSE IF text[1] = "{Host:Running}" THEN [kind |-> "object", Host |-> "Running"]
         ELSE IF text[1] \in {"{Host:Stopped}", "{Host:Stopped,Kubelet:Running}"}
              THEN [kind |-> "object", Host |-> "Stopped"]
         ELSE [kind |-> "object", Host |-> ""]
    ELSE [kind |-> "JSONDecodeError", Host |-> ""]

\* `status_json.get(...)` on a document that is no object: AttributeError.
status_raises(status) ==
    truthy(status) /\ json_loads(status.text).kind = "array"

\* A status check that consults the substring match for parsed documents too.
status_running_substring(status) ==
    IF truthy(status)
    THEN \/ contains(status.text, "Running")
         \/ json_loads(status.text).Host = "Running"
    ELSE FALSE

\* The value check_minikube_status returns for the status text.
status_running(status) ==
    IF truthy(status)
    THEN IF json_loads(status.text).kind = "JSONDecodeError"
         THEN contains(status.text, "Running")
         ELSE json_loads(status.text).Host = "Running"
    ELSE FALSE

\* A caller's `check_minikube_status()`, resuming at ret.
check_minikube_status(ret) ==
    /\ cms_return' = ret
    /\ cms_result' = FALSE
    /\ pc' = "cms_query"

\* status = run_command(["minikube", "status", "-o", "json"], timeout=10)
cms_query ==
    /\ pc = "cms_query"
    /\ run_command(StatusCmd, 10, default_retry(script), "cms_parse")
    /\ UNCHANGED <<script, alive, time_vars, issued, caller_vars>>

\* The parse of the status text and the return.
cms_parse ==
    /\ pc = "cms_parse"
    /\ IF status_raises(rc_result)
       THEN /\ pc' = "raised"
            /\ UNCHANGED cms_result
       ELSE /\ cms_result' = status_running(rc_result)
            /\ pc' = cms_return
    /\ UNCHANGED <<script, mk_vars, obs_vars, rc_vars, alive, time_vars, issued, main_vars,
                   cms_return, stage_vars>>

CheckStatusStep == cms_query \/ cms_parse

----------------------------------------------------------------------------
(* The callers' variables before any of them has run.                      *)

\* The port-forward processes setup_port_forwarding starts, in its order.
Forwards == <<"app_forward", "prom_forward", "graf_forward">>

\* The flags argparse can produce (--env only selects the overlay path).
Args == [skip_build : BOOLEAN, skip_monitoring : BOOLEAN, port_forward : BOOLEAN]

InitCallers ==
    /\ success = TRUE
    /\ main_result = "none"
    /\ exit_code = -1
    /\ stage_result = TRUE
    /\ started = <<>>
    /\ failed = {}
    /\ cms_return = "none"
    /\ cms_result = FALSE
    /\ ns_i = 0
    /\ apply_input = <<>>
    /\ prometheus_ready = FALSE
    /\ grafana_ready = FALSE
    /\ forwards = [i \in 1 .. Len(Forwards) |-> "unstarted"]
    /\ environ = FALSE
    /\ start_result = "none"
    /\ stop_result = "none"
    /\ stop_return = "none"
    /\ missing = {}
    /\ stop_saw = "none"

----------------------------------------------------------------------------
(* run_command on its own: a caller that calls it with any retry limit,    *)
(* in either script, any number of times in one process.                   *)

\* The retry arguments tried, the degenerate 0 and -1 included.
RetryArgs == (-1) .. MaxRetry

\* The default `timeout=60` of both run_command definitions.
DefaultTimeout == 60

InitRunCommand ==
    /\ script = "deploy"
    /\ pc = "idle"
    /\ rc_cmd = "cmd"
    /\ rc_timeout = DefaultTimeout
    /\ rc_retry = 1
    /\ rc_attempt = 0
    /\ rc_return = "returned"
    /\ rc_result = NoneVal
    /\ attempts = 0
    /\ sleeps = 0
    /\ outcomes = <<>>
    /\ last_stdout = <<>>
    /\ alive = 0
    /\ timing = FALSE
    /\ elapsed = 0
    /\ issued = {}
    /\ args = [skip_build |-> FALSE, skip_monitoring |-> FALSE, port_forward |-> FALSE]
    /\ mk_action = "none"
    /\ InitCallers

\* The caller calls run_command.
caller_calls ==
    /\ pc = "idle"
    /\ \E s \in Scripts, n \in RetryArgs :
          /\ script' = s
          /\ run_command("cmd", DefaultTimeout, n, "returned")
    /\ UNCHANGED <<alive, time_vars, issued, caller_vars>>

\* The caller has the returned value, or has caught the exception, and goes on.
caller_resumes ==
    /\ pc \in {"returned", "raised"}
    /\ pc' = "idle"
    /\ UNCHANGED <<script, rc_vars, alive, time_vars, issued, caller_vars>>

NextRunCommand == caller_calls \/ caller_resumes \/ RunCommandStep

SpecRunCommand == InitRunCommand /\ [][NextRunCommand]_vars

----------------------------------------------------------------------------
(* deploy_app.py: the stage functions called by main.                      *)

\* DEPLOY_TIMEOUT, in seconds.
DEPLOY_TIMEOUT == 300

\* A stage function returns `value` to main, which resumes at ret.
stage_returns(name, value, ret) ==
    /\ stage_result' = value
    /\ failed' = IF value THEN failed ELSE failed \cup {name}
    /\ pc' = ret

\* main calls the stage function `name`, whose first statement is `first`.
stage_called(name, first) ==
    /\ started' = Append(started, name)
    /\ pc' = first

\* create_namespaces ---------------------------------------------------------

Namespaces == <<"react-sre-app", "monitoring">>

RenderCmd(i) == IF i = 1 THEN "kubectl create namespace react-sre-app --dry-run=client -o yaml"
                ELSE "kubectl create namespace monitoring --dry-run=client -o yaml"

ApplyCmd(i) == IF i = 1 THEN "kubectl apply -f - (react-sre-app)"
               ELSE "kubectl apply -f - (monitoring)"

\* `for namespace in namespaces`: render the next namespace, or return True.
ns_for ==
    /\ pc = "ns_for"
    /\ IF ns_i <= Len(Namespaces)
       THEN /\ run_command(RenderCmd(ns_i), 10, 1, "ns_rendered")
            /\ UNCHANGED <<stage_result, failed>>
       ELSE /\ stage_returns("create_namespaces", TRUE, "main_namespaces")
            /\ UNCHANGED rc_vars
    /\ UNCHANGED <<script, mk_vars, obs_vars, alive, time_vars, issued, args, success, main_result,
                   exit_code, started, cms_vars, stage_vars>>

\* A render step whose failure is not looked at.
ns_rendered_lenient ==
    /\ pc = "ns_rendered"
    /\ pc' = "ns_apply"
    /\ UNCHANGED <<stage_result, failed>>
    /\ UNCHANGED <<script, mk_vars, obs_vars, rc_vars, alive, time_vars, issued, args, success,
                   main_result, exit_code, started, cms_vars, stage_vars>>

\* `if result is None: return False`, else go on to the apply.
ns_rendered ==
    /\ pc = "ns_rendered"
    /\ IF rc_result.isNone
       THEN stage_returns("create_namespaces", FALSE, "main_namespaces")
       ELSE /\ pc' = "ns_apply"
            /\ UNCHANGED <<stage_result, failed>>
    /\ UNCHANGED <<script, mk_vars, obs_vars, rc_vars, alive, time_vars, issued, args, success,
                   main_result, exit_code, started, cms_vars, stage_vars>>

\* subprocess.run([kubectl, apply, -f, -], input=result, timeout=30) starts.
ns_apply_spawn ==
    /\ pc = "ns_apply"
    /\ alive' = alive + 1
    /\ issued' = issued \cup {ApplyCmd(ns_i)}
    /\ apply_input' = Append(apply_input, rc_result.text)
    /\ pc' = "ns_apply_wait"
    /\ UNCHANGED <<script, mk_vars, obs_vars, rc_vars, time_vars, main_vars, cms_vars, ns_i,
                   prometheus_ready, grafana_ready, forwards>>

\* The apply process cannot be started: the OSError is not caught.
ns_apply_spawn_error ==
    /\ pc = "ns_apply"
    /\ pc' = "raised"
    /\ UNCHANGED <<script, rc_vars, alive, time_vars, issued, caller_vars>>

\* The apply process exits: non-zero returns False, zero goes to the next
\* namespace.
ns_apply_exit ==
    /\ pc = "ns_apply_wait"
    /\ alive' = alive - 1
    /\ \E returncode \in ReturnCodes :
          IF returncode # 0
          THEN /\ stage_returns("create_namespaces", FALSE, "main_namespaces")
               /\ UNCHANGED ns_i
          ELSE /\ ns_i' = ns_i + 1
               /\ pc' = "ns_for"
               /\ UNCHANGED <<stage_result, failed>>
    /\ UNCHANGED <<script, mk_vars, obs_vars, rc_vars, time_vars, issued, args, success, main_result,
                   exit_code, started, cms_vars, apply_input, prometheus_ready,
                   grafana_ready, forwards>>

\* The apply process is killed on its timeout: return False.
ns_apply_timeout ==
    /\ pc = "ns_apply_wait"
    /\ alive' = alive - 1
    /\ stage_returns("create_namespaces", FALSE, "main_namespaces")
    /\ UNCHANGED <<script, mk_vars, obs_vars, rc_vars, time_vars, issued, args, success, main_result,
                   exit_code, started, cms_vars, stage_vars>>

CreateNamespacesStep ==
    \/ ns_for
    \/ ns_rendered
    \/ ns_apply_spawn
    \/ ns_apply_spawn_error
    \/ ns_apply_exit
    \/ ns_apply_timeout

\* build_react_app and build_docker_image ------------------------------------

\* The path whose existence the statement `at` tests.
Prerequisite(at) ==
    IF at = "bra_begin" THEN "REACT_APP_DIR"
    ELSE IF at = "bdi_begin" THEN "Dockerfile"
    ELSE IF at = "dm_begin" THEN "prometheus-k8s.yaml"
    ELSE IF at = "dm_prom_applied" THEN "grafana-k8s.yaml"
    ELSE "overlay_dir"

\* A stage step of the shape
\*     if not os.path.exists(path): return False
\*     result = run_command(c, timeout=t, retry=n)
\* at statement `at`, of stage `name` returning to main at `ret`.
exists_then_run(at, name, ret, c, t, n, next) ==
    /\ pc = at
    /\ \E exists \in BOOLEAN :
          IF exists
          THEN /\ run_command(c, t, n, next)
               /\ UNCHANGED <<stage_result, failed, missing>>
          ELSE /\ stage_returns(name, FALSE, ret)
               /\ missing' = missing \cup {Prerequisite(at)}
               /\ UNCHANGED rc_vars
    /\ UNCHANGED <<script, mk_vars, stop_saw, alive, time_vars, issued, args, success, main_result,
                   exit_code, started, cms_vars, stage_vars>>

\* A stage step of the shape
\*     if result is None: return False
\*     result = run_command(c, timeout=t, retry=n)
none_then_run(at, name, ret, c, t, n, next) ==
    /\ pc = at
    /\ IF rc_result.isNone
       THEN /\ stage_returns(name, FALSE, ret)
            /\ UNCHANGED rc_vars
       ELSE /\ run_command(c, t, n, next)
            /\ UNCHANGED <<stage_result, failed>>
    /\ UNCHANGED <<script, mk_vars, obs_vars, alive, time_vars, issued, args, success, main_result,
                   exit_code, started, cms_vars, stage_vars>>

\* A stage step of the shape
\*     if result is None: return False
\*     return True
none_then_true(at, name, ret) ==
    /\ pc = at
    /\ stage_returns(name, ~rc_result.isNone, ret)
    /\ UNCHANGED <<script, mk_vars, obs_vars, rc_vars, alive, time_vars, issued, args, success,
                   main_result, exit_code, started, cms_vars, stage_vars>>

bra_begin ==
    exists_then_run("bra_begin", "build_react_app", "main_react_built",
                    "npm install --legacy-peer-deps", 300, 1, "bra_installed")

bra_installed ==
    none_then_run("bra_installed", "build_react_app", "main_react_built",
                  "npm run build", 300, 1, "bra_built")

bra_built == none_then_true("bra_built", "build_react_app", "main_react_built")

bdi_begin ==
    exists_then_run("bdi_begin", "build_docker_image", "main_image_built",
                    "docker build -t react-sre-app:latest .", 300, 1, "bdi_built")

bdi_built ==
    none_then_run("bdi_built", "build_docker_image", "main_image_built",
                  "minikube image load react-sre-app:latest", 120, 1, "bdi_loaded")

bdi_loaded == none_then_true("bdi_loaded", "build_docker_image", "main_image_built")

BuildStep ==
    \/ bra_begin
    \/ bra_installed
    \/ bra_built
    \/ bdi_begin
    \/ bdi_built
    \/ bdi_loaded

\* deploy_monitoring -----------------------------------------------------------

dm_begin ==
    exists_then_run("dm_begin", "deploy_monitoring", "main_monitored",
                    "kubectl apply -f prometheus-k8s.yaml", 30, 3, "dm_prom_applied")

\* `if result is None: return False`, then the Grafana manifest.
dm_prom_applied ==
    /\ pc = "dm_prom_applied"
    /\ IF rc_result.isNone
       THEN /\ stage_returns("deploy_monitoring", FALSE, "main_monitored")
            /\ UNCHANGED <<rc_vars, missing>>
       ELSE \E exists \in BOOLEAN :
              IF exists
              THEN /\ run_command("kubectl apply -f grafana-k8s.yaml", 30, 3,
                                  "dm_graf_applied")
                   /\ UNCHANGED <<stage_result, failed, missing>>
              ELSE /\ stage_returns("deploy_monitoring", FALSE, "main_monitored")
                   /\ missing' = missing \cup {Prerequisite("dm_prom_applied")}
                   /\ UNCHANGED rc_vars
    /\ UNCHANGED <<script, mk_vars, stop_saw, alive, time_vars, issued, args, success, main_result,
                   exit_code, started, cms_vars, stage_vars>>

\* `if result is None: return False`, then start_time = time.time() and the
\* two ready flags.
dm_graf_applied ==
    /\ pc = "dm_graf_applied"
    /\ IF rc_result.isNone
       THEN /\ stage_returns("deploy_monitoring", FALSE, "main_monitored")
            /\ UNCHANGED <<time_vars, prometheus_ready, grafana_ready>>
       ELSE /\ timing' = TRUE
            /\ elapsed' = 0
            /\ prometheus_ready' = FALSE
            /\ grafana_ready' = FALSE
            /\ pc' = "dm_while"
            /\ UNCHANGED <<stage_result, failed>>
    /\ UNCHANGED <<script, mk_vars, obs_vars, rc_vars, alive, issued, args, success, main_result,
                   exit_code, started, cms_vars, ns_i, apply_input, forwards>>

\* `while time.time() - start_time < DEPLOY_TIMEOUT`, else return False.
dm_while ==
    /\ pc = "dm_while"
    /\ IF elapsed < DEPLOY_TIMEOUT
       THEN /\ pc' = "dm_prom"
            /\ UNCHANGED <<stage_result, failed, time_vars>>
       ELSE /\ stage_returns("deploy_monitoring", FALSE, "main_monitored")
            /\ timing' = FALSE
            /\ elapsed' = 0
    /\ UNCHANGED <<script, mk_vars, obs_vars, rc_vars, alive, issued, args, success, main_result,
                   exit_code, started, cms_vars, stage_vars>>

\* A wait that queries Prometheus in every iteration.
dm_prom_requery ==
    /\ pc = "dm_prom"
    /\ run_command(PromPodsCmd, 10, 1, "dm_prom_polled")
    /\ UNCHANGED <<script, alive, time_vars, issued, caller_vars>>

\* `if not prometheus_ready: prom_status = run_command(...)`
dm_prom ==
    /\ pc = "dm_prom"
    /\ IF ~prometheus_ready
       THEN run_command(PromPodsCmd, 10, 1, "dm_prom_polled")
       ELSE /\ pc' = "dm_graf"
            /\ UNCHANGED rc_vars
    /\ UNCHANGED <<script, alive, time_vars, issued, caller_vars>>

\* `if prom_status and "Running" in prom_status: prometheus_ready = True`
dm_prom_polled ==
    /\ pc = "dm_prom_polled"
    /\ prometheus_ready' =
          IF truthy(rc_result) /\ contains(rc_result.text, "Running")
          THEN TRUE ELSE prometheus_ready
    /\ pc' = "dm_graf"
    /\ UNCHANGED <<script, mk_vars, obs_vars, rc_vars, alive, time_vars, issued, main_vars, cms_vars,
                   ns_i, apply_input, grafana_ready, forwards>>

\* A wait that looks at Grafana only once Prometheus is ready.
dm_graf_gated ==
    /\ pc = "dm_graf"
    /\ IF ~grafana_ready /\ prometheus_ready
       THEN run_command(GrafPodsCmd, 10, 1, "dm_graf_polled")
       ELSE /\ pc' = "dm_both"
            /\ UNCHANGED rc_vars
    /\ UNCHANGED <<script, alive, time_vars, issued, caller_vars>>

\* `if not grafana_ready: graf_status = run_command(...)`
dm_graf ==
    /\ pc = "dm_graf"
    /\ IF ~grafana_ready
       THEN run_command(GrafPodsCmd, 10, 1, "dm_graf_polled")
       ELSE /\ pc' = "dm_both"
            /\ UNCHANGED rc_vars
    /\ UNCHANGED <<script, alive, time_vars, issued, caller_vars>>

\* `if graf_status and "Running" in graf_status: grafana_ready = True`
dm_graf_polled ==
    /\ pc = "dm_graf_polled"
    /\ grafana_ready' =
          IF truthy(rc_result) /\ contains(rc_result.text, "Running")
          THEN TRUE ELSE grafana_ready
    /\ pc' = "dm_both"
    /\ UNCHANGED <<script, mk_vars, obs_vars, rc_vars, alive, time_vars, issued, main_vars, cms_vars,
                   ns_i, apply_input, prometheus_ready, forwards>>

\* `if prometheus_ready and grafana_ready: return True`, else
\* time.sleep(10) and the next iteration.
dm_both ==
    /\ pc = "dm_both"
    /\ IF prometheus_ready /\ grafana_ready
       THEN /\ stage_returns("deploy_monitoring", TRUE, "main_monitored")
            /\ timing' = FALSE
            /\ elapsed' = 0
       ELSE /\ Pass(10)
            /\ pc' = "dm_while"
            /\ UNCHANGED <<stage_result, failed, timing>>
    /\ UNCHANGED <<script, mk_vars, obs_vars, rc_vars, alive, issued, args, success, main_result,
                   exit_code, started, cms_vars, stage_vars>>

DeployMonitoringStep ==
    \/ dm_begin
    \/ dm_prom_applied
    \/ dm_graf_applied
    \/ dm_while
    \/ dm_prom
    \/ dm_prom_polled
    \/ dm_graf
    \/ dm_graf_polled
    \/ dm_both

\* deploy_application ----------------------------------------------------------

da_begin ==
    exists_then_run("da_begin", "deploy_application", "main_deployed",
                    "kubectl apply -k overlays/env", 60, 3, "da_applied")

\* `if result is None: return False`, then start_time = time.time().
da_applied ==
    /\ pc = "da_applied"
    /\ IF rc_result.isNone
       THEN /\ stage_returns("deploy_application", FALSE, "main_deployed")
            /\ UNCHANGED time_vars
       ELSE /\ timing' = TRUE
            /\ elapsed' = 0
            /\ pc' = "da_while"
            /\ UNCHANGED <<stage_result, failed>>
    /\ UNCHANGED <<script, mk_vars, obs_vars, rc_vars, alive, issued, args, success, main_result,
                   exit_code, started, cms_vars, stage_vars>>

\* `while time.time() - start_time < DEPLOY_TIMEOUT: app_status = run_command(...)`,
\* else return False.
da_while ==
    /\ pc = "da_while"
    /\ IF elapsed < DEPLOY_TIMEOUT
       THEN /\ run_command(AppPodsCmd, 10, 1, "da_polled")
            /\ UNCHANGED <<stage_result, failed, time_vars>>
       ELSE /\ stage_returns("deploy_application", FALSE, "main_deployed")
            /\ timing' = FALSE
            /\ elapsed' = 0
            /\ UNCHANGED rc_vars
    /\ UNCHANGED <<script, mk_vars, obs_vars, alive, issued, args, success, main_result,
                   exit_code, started, cms_vars, stage_vars>>

\* `if app_status and "Running" in app_status and "Pending" not in app_status`
app_ready(app_status) ==
    /\ truthy(app_status)
    /\ contains(app_status.text, "Running")
    /\ ~contains(app_status.text, "Pending")

\* A wait that polls once more after the poll that found the pods ready.
da_polled_lingering ==
    /\ pc = "da_polled"
    /\ IF app_ready(rc_result) /\ elapsed > 0
       THEN /\ stage_returns("deploy_application", TRUE, "main_deployed")
            /\ timing' = FALSE
            /\ elapsed' = 0
       ELSE /\ Pass(10)
            /\ pc' = "da_while"
            /\ UNCHANGED <<stage_result, failed, timing>>
    /\ UNCHANGED <<script, mk_vars, obs_vars, rc_vars, alive, issued, args, success, main_result,
                   exit_code, started, cms_vars, stage_vars>>

\* Ready: return True; otherwise time.sleep(10) and the next iteration.
da_polled ==
    /\ pc = "da_polled"
    /\ IF app_ready(rc_result)
       THEN /\ stage_returns("deploy_application", TRUE, "main_deployed")
            /\ timing' = FALSE
            /\ elapsed' = 0
       ELSE /\ Pass(10)
            /\ pc' = "da_while"
            /\ UNCHANGED <<stage_result, failed, timing>>
    /\ UNCHANGED <<script, mk_vars, obs_vars, rc_vars, alive, issued, args, success, main_result,
                   exit_code, started, cms_vars, stage_vars>>

DeployApplicationStep ==
    \/ da_begin
    \/ da_applied
    \/ da_while
    \/ da_polled

\* setup_port_forwarding -------------------------------------------------------

ForwardCmd(i) ==
    IF i = 1 THEN "kubectl port-forward svc/dev-react-sre-app 3000:80"
    ELSE IF i = 2 THEN "kubectl port-forward svc/prometheus 9090:9090"
    ELSE "kubectl port-forward svc/grafana 8081:3000"

\* The next process the function starts.
NextForward ==
    CHOOSE i \in 1 .. Len(Forwards) + 1 :
        /\ \A k \in 1 .. i - 1 : forwards[k] # "unstarted"
        /\ i <= Len(Forwards) => forwards[i] = "unstarted"

\* subprocess.Popen([kubectl, port-forward, ...]) for the next process.
pf_popen ==
    /\ pc = "pf_popen"
    /\ forwards' = [forwards EXCEPT ![NextForward] = "running"]
    /\ issued' = issued \cup {ForwardCmd(NextForward)}
    /\ pc' = IF NextForward = Len(Forwards) THEN "pf_logs" ELSE "pf_popen"
    /\ UNCHANGED <<script, mk_vars, obs_vars, rc_vars, alive, time_vars, main_vars, cms_vars, ns_i,
                   apply_input, prometheus_ready, grafana_ready>>

\* Popen cannot start the process: the OSError leaves the function.
pf_popen_error ==
    /\ pc = "pf_popen"
    /\ pc' = "raised"
    /\ UNCHANGED <<script, rc_vars, alive, time_vars, issued, caller_vars>>

\* The four log lines after the third Popen, then the try statement is entered.
pf_logged ==
    /\ pc = "pf_logs"
    /\ pc' = "pf_try"
    /\ UNCHANGED <<script, rc_vars, alive, time_vars, issued, caller_vars>>

\* KeyboardInterrupt before the try statement is entered, at a Popen or at a
\* log line: nothing catches it.
pf_interrupt_early ==
    /\ pc \in {"pf_popen", "pf_logs"}
    /\ pc' = "interrupted"
    /\ UNCHANGED <<script, rc_vars, alive, time_vars, issued, caller_vars>>

\* `while True: time.sleep(1)`
pf_sleep ==
    /\ pc = "pf_try"
    /\ UNCHANGED vars

\* KeyboardInterrupt in the sleep loop: `except KeyboardInterrupt` is entered
\* and logs "Stopping port forwarding...".
pf_interrupt ==
    /\ pc = "pf_try"
    /\ pc' = "pf_except"
    /\ UNCHANGED <<script, rc_vars, alive, time_vars, issued, caller_vars>>

\* The next process the handler terminates.
NextTerminate ==
    CHOOSE i \in 1 .. Len(Forwards) + 1 :
        /\ \A k \in 1 .. i - 1 : forwards[k] = "terminated"
        /\ i <= Len(Forwards) => forwards[i] # "terminated"

\* app_forward.terminate(), prom_forward.terminate(), graf_forward.terminate(),
\* one call at a time.
pf_terminate ==
    /\ pc = "pf_except"
    /\ forwards' = [forwards EXCEPT ![NextTerminate] = "terminated"]
    /\ pc' = IF NextTerminate = Len(Forwards) THEN "pf_terminated" ELSE "pf_except"
    /\ UNCHANGED <<script, mk_vars, obs_vars, rc_vars, alive, time_vars, issued, main_vars,
                   cms_vars, ns_i, apply_input, prometheus_ready, grafana_ready>>

\* The handler is done: setup_port_forwarding returns None to main.
pf_returns ==
    /\ pc = "pf_terminated"
    /\ pc' = "main_finish"
    /\ UNCHANGED <<script, rc_vars, alive, time_vars, issued, caller_vars>>

\* A second KeyboardInterrupt inside the handler, at the log line or after any
\* of the terminate() calls: nothing catches it.
pf_interrupt_again ==
    /\ pc \in {"pf_except", "pf_terminated"}
    /\ pc' = "interrupted"
    /\ UNCHANGED <<script, rc_vars, alive, time_vars, issued, caller_vars>>

PortForwardStep ==
    \/ pf_popen
    \/ pf_popen_error
    \/ pf_logged
    \/ pf_interrupt_early
    \/ pf_sleep
    \/ pf_interrupt
    \/ pf_terminate
    \/ pf_returns
    \/ pf_interrupt_again

----------------------------------------------------------------------------
(* deploy_app.py: main().                                                  *)

\* `return value` from main.
main_returns(value) ==
    /\ main_result' = value
    /\ pc' = "main_returned"

\* What main leaves alone in every step of its own.
main_frame ==
    UNCHANGED <<script, mk_vars, obs_vars, rc_vars, alive, time_vars, issued, args, exit_code,
                stage_result, failed, cms_vars, apply_input, prometheus_ready,
                grafana_ready, forwards>>

\* `if not check_minikube_status():`, the call.
main_begin ==
    /\ pc = "main_begin"
    /\ check_minikube_status("main_checked")
    /\ UNCHANGED <<script, mk_vars, obs_vars, rc_vars, alive, time_vars, issued, main_vars, stage_vars>>

\* A main that goes on to the stages whatever the status check said.
main_checked_unconditional ==
    /\ pc = "main_checked"
    /\ success' = TRUE
    /\ ns_i' = 1
    /\ stage_called("create_namespaces", "ns_for")
    /\ UNCHANGED main_result
    /\ main_frame

\* Not running: `return False`.  Running: `success = True`, then
\* `if not create_namespaces():`, the call.
main_checked ==
    /\ pc = "main_checked"
    /\ IF ~cms_result
       THEN /\ main_returns("False")
            /\ UNCHANGED <<success, started, ns_i>>
       ELSE /\ success' = TRUE
            /\ ns_i' = 1
            /\ stage_called("create_namespaces", "ns_for")
            /\ UNCHANGED main_result
    /\ main_frame

\* create_namespaces failed: `return False`.  Otherwise `if not
\* args.skip_build`, and `if not build_react_app():`, the call.
main_namespaces ==
    /\ pc = "main_namespaces"
    /\ IF ~stage_result
       THEN /\ main_returns("False")
            /\ UNCHANGED started
       ELSE /\ IF ~args.skip_build
               THEN stage_called("build_react_app", "bra_begin")
               ELSE /\ pc' = "main_monitoring"
                    /\ UNCHANGED started
            /\ UNCHANGED main_result
    /\ UNCHANGED <<success, ns_i>>
    /\ main_frame

\* A main in which a failed build_react_app is recorded and execution goes on.
main_react_built_soft ==
    /\ pc = "main_react_built"
    /\ success' = (success /\ stage_result)
    /\ stage_called("build_docker_image", "bdi_begin")
    /\ UNCHANGED <<main_result, ns_i>>
    /\ main_frame

\* build_react_app failed: `return False`.  Otherwise
\* `if not build_docker_image():`, the call.
main_react_built ==
    /\ pc = "main_react_built"
    /\ IF ~stage_result
       THEN /\ main_returns("False")
            /\ UNCHANGED started
       ELSE /\ stage_called("build_docker_image", "bdi_begin")
            /\ UNCHANGED main_result
    /\ UNCHANGED <<success, ns_i>>
    /\ main_frame

\* build_docker_image failed: `return False`.
main_image_built ==
    /\ pc = "main_image_built"
    /\ IF ~stage_result
       THEN main_returns("False")
       ELSE /\ pc' = "main_monitoring"
            /\ UNCHANGED main_result
    /\ UNCHANGED <<success, started, ns_i>>
    /\ main_frame

\* `if not args.skip_monitoring: if not deploy_monitoring():`, the call.
main_monitoring ==
    /\ pc = "main_monitoring"
    /\ IF ~args.skip_monitoring
       THEN stage_called("deploy_monitoring", "dm_begin")
       ELSE /\ pc' = "main_application"
            /\ UNCHANGED started
    /\ UNCHANGED <<success, main_result, ns_i>>
    /\ main_frame

\* A main that forgets a failed deploy_monitoring.
main_monitored_forgetful ==
    /\ pc = "main_monitored"
    /\ pc' = "main_application"
    /\ UNCHANGED <<success, main_result, started, ns_i>>
    /\ main_frame

\* A main that returns at once when deploy_monitoring failed.
main_monitored_fatal ==
    /\ pc = "main_monitored"
    /\ IF ~stage_result
       THEN main_returns("False")
       ELSE /\ pc' = "main_application"
            /\ UNCHANGED main_result
    /\ UNCHANGED <<success, started, ns_i>>
    /\ main_frame

\* deploy_monitoring failed: `success = False`; go on in both cases.
main_monitored ==
    /\ pc = "main_monitored"
    /\ success' = IF ~stage_result THEN FALSE ELSE success
    /\ pc' = "main_application"
    /\ UNCHANGED <<main_result, started, ns_i>>
    /\ main_frame

\* `if not deploy_application(args.env):`, the call.
main_application ==
    /\ pc = "main_application"
    /\ stage_called("deploy_application", "da_begin")
    /\ UNCHANGED <<success, main_result, ns_i>>
    /\ main_frame

\* A main that goes back to deploy_monitoring after deploy_application.
main_deployed_remonitor ==
    /\ pc = "main_deployed"
    /\ success' = IF ~stage_result THEN FALSE ELSE success
    /\ stage_called("deploy_monitoring", "dm_begin")
    /\ UNCHANGED <<main_result, ns_i>>
    /\ main_frame

\* deploy_application failed: `success = False`; go on in both cases.
main_deployed ==
    /\ pc = "main_deployed"
    /\ success' = IF ~stage_result THEN FALSE ELSE success
    /\ pc' = "main_forward"
    /\ UNCHANGED <<main_result, started, ns_i>>
    /\ main_frame

\* A main that forwards the ports whenever the flag was given.
main_forward_unconditional ==
    /\ pc = "main_forward"
    /\ IF args.port_forward
       THEN stage_called("setup_port_forwarding", "pf_popen")
       ELSE /\ pc' = "main_finish"
            /\ UNCHANGED started
    /\ UNCHANGED <<success, main_result, ns_i>>
    /\ main_frame

\* `if args.port_forward and success: setup_port_forwarding()`
main_forward ==
    /\ pc = "main_forward"
    /\ IF args.port_forward /\ success
       THEN stage_called("setup_port_forwarding", "pf_popen")
       ELSE /\ pc' = "main_finish"
            /\ UNCHANGED started
    /\ UNCHANGED <<success, main_result, ns_i>>
    /\ main_frame

\* A main that reports failure once port-forwarding has run.
main_finish_strict ==
    /\ pc = "main_finish"
    /\ main_returns(IF success /\ forwards[1] = "unstarted" THEN "True" ELSE "False")
    /\ UNCHANGED <<success, started, ns_i>>
    /\ main_frame

\* The closing log line and `return success`.
main_finish ==
    /\ pc = "main_finish"
    /\ main_returns(IF success THEN "True" ELSE "False")
    /\ UNCHANGED <<success, started, ns_i>>
    /\ main_frame

\* `success = main(); sys.exit(0 if success else 1)`
sys_exit ==
    /\ pc = "main_returned"
    /\ exit_code' = IF main_result = "True" THEN 0 ELSE 1
    /\ pc' = "exited"
    /\ UNCHANGED <<script, mk_vars, obs_vars, rc_vars, alive, time_vars, issued, args, success,
                   main_result, stage_result, started, failed, cms_vars, stage_vars>>

\* An exception that nothing catches ends the interpreter: a traceback and
\* status 1, or for KeyboardInterrupt the death by SIGINT that a shell
\* reports as 130.
uncaught ==
    /\ pc \in {"raised", "interrupted"}
    /\ exit_code' = IF pc = "interrupted" THEN 130 ELSE 1
    /\ pc' = "aborted"
    /\ UNCHANGED <<script, mk_vars, obs_vars, rc_vars, alive, time_vars, issued, args,
                   success, main_result, stage_result, started, failed, cms_vars,
                   stage_vars>>

MainStep ==
    \/ main_begin
    \/ main_checked
    \/ main_namespaces
    \/ main_react_built
    \/ main_image_built
    \/ main_monitoring
    \/ main_monitored
    \/ main_application
    \/ main_deployed
    \/ main_forward
    \/ main_finish
    \/ sys_exit

InitDeploy ==
    /\ script = "deploy"
    /\ pc = "main_begin"
    /\ rc_cmd = "none"
    /\ rc_timeout = DefaultTimeout
    /\ rc_retry = 1
    /\ rc_attempt = 0
    /\ rc_return = "none"
    /\ rc_result = NoneVal
    /\ attempts = 0
    /\ sleeps = 0
    /\ outcomes = <<>>
    /\ last_stdout = <<>>
    /\ alive = 0
    /\ timing = FALSE
    /\ elapsed = 0
    /\ issued = {}
    /\ args \in Args
    /\ mk_action = "none"
    /\ InitCallers

NextDeploy ==
    \/ RunCommandStep
    \/ CheckStatusStep
    \/ CreateNamespacesStep
    \/ BuildStep
    \/ DeployMonitoringStep
    \/ DeployApplicationStep
    \/ PortForwardStep
    \/ MainStep
    \/ uncaught

SpecDeploy == InitDeploy /\ [][NextDeploy]_vars

----------------------------------------------------------------------------
(* minikube_control.py: start_minikube, stop_minikube and main.            *)

\* MINIKUBE_WAIT_TIMEOUT, in seconds.
MINIKUBE_WAIT_TIMEOUT == 60

StartCmd == "minikube start --memory=4096 --cpus=2 --driver=docker"
VersionCmd == "kubectl version --output=yaml"
StopCmd == "minikube stop"

\* The choices of the `action` argument.
Actions == {"start", "stop", "status", "restart"}

\* What the minikube actions leave alone of deploy_app.py's state.
mk_frame ==
    UNCHANGED <<script, mk_action, alive, issued, args, main_result, stage_result,
                started, failed, stage_vars, missing>>

\* `return value` of start_minikube; main resumes at `success = ...`.
start_returns(value) ==
    /\ start_result' = value
    /\ pc' = "mk_started"

\* `return value` of stop_minikube; its caller resumes.
stop_returns(value) ==
    /\ stop_result' = value
    /\ pc' = stop_return

\* start_minikube ----------------------------------------------------------------

\* `if check_minikube_status():`
sm_begin ==
    /\ pc = "sm_begin"
    /\ check_minikube_status("sm_checked")
    /\ UNCHANGED <<rc_vars, time_vars, success, exit_code, environ, start_result,
                   stop_result, stop_return, stop_saw>>
    /\ mk_frame

\* A start that prepares the environment before it looks at the status.
sm_checked_eager ==
    /\ pc = "sm_checked"
    /\ environ' = TRUE
    /\ IF cms_result
       THEN /\ start_returns("True")
            /\ UNCHANGED rc_vars
       ELSE /\ run_command(StartCmd, MINIKUBE_WAIT_TIMEOUT, default_retry(script),
                           "sm_start_done")
            /\ UNCHANGED start_result
    /\ UNCHANGED <<time_vars, success, exit_code, cms_vars, stop_result, stop_return, stop_saw>>
    /\ mk_frame

\* Already running: return True.  Otherwise set WZEGH_CONFIGURED and run
\* `minikube start` with run_command's default retry.
sm_checked ==
    /\ pc = "sm_checked"
    /\ IF cms_result
       THEN /\ start_returns("True")
            /\ UNCHANGED <<rc_vars, environ>>
       ELSE /\ environ' = TRUE
            /\ run_command(StartCmd, MINIKUBE_WAIT_TIMEOUT, default_retry(script),
                           "sm_start_done")
            /\ UNCHANGED start_result
    /\ UNCHANGED <<time_vars, success, exit_code, cms_vars, stop_result, stop_return, stop_saw>>
    /\ mk_frame

\* `if result is None: return False`, then start_time = time.time().
sm_start_done ==
    /\ pc = "sm_start_done"
    /\ IF rc_result.isNone
       THEN /\ start_returns("False")
            /\ UNCHANGED time_vars
       ELSE /\ timing' = TRUE
            /\ elapsed' = 0
            /\ pc' = "sm_while"
            /\ UNCHANGED start_result
    /\ UNCHANGED <<rc_vars, success, exit_code, cms_vars, environ, stop_result,
                   stop_return, stop_saw>>
    /\ mk_frame

\* `while time.time() - start_time < MINIKUBE_WAIT_TIMEOUT:
\*      if check_minikube_status():`, else return False.
sm_while ==
    /\ pc = "sm_while"
    /\ IF elapsed < MINIKUBE_WAIT_TIMEOUT
       THEN /\ check_minikube_status("sm_polled")
            /\ UNCHANGED <<start_result, time_vars>>
       ELSE /\ start_returns("False")
            /\ timing' = FALSE
            /\ elapsed' = 0
            /\ UNCHANGED cms_vars
    /\ UNCHANGED <<rc_vars, success, exit_code, environ, stop_result, stop_return, stop_saw>>
    /\ mk_frame

\* A wait that declares success on the running status alone.
sm_polled_trusting ==
    /\ pc = "sm_polled"
    /\ IF cms_result
       THEN /\ start_returns("True")
            /\ timing' = FALSE
            /\ elapsed' = 0
       ELSE /\ pc' = "sm_sleep"
            /\ UNCHANGED <<start_result, time_vars>>
    /\ UNCHANGED <<rc_vars, success, exit_code, cms_vars, environ, stop_result,
                   stop_return, stop_saw>>
    /\ mk_frame

\* Running: version = run_command([kubectl, version, --output=yaml], timeout=10);
\* not running: on to the log line and the sleep.
sm_polled ==
    /\ pc = "sm_polled"
    /\ IF cms_result
       THEN run_command(VersionCmd, 10, default_retry(script), "sm_version")
       ELSE /\ pc' = "sm_sleep"
            /\ UNCHANGED rc_vars
    /\ UNCHANGED <<time_vars, success, exit_code, cms_vars, mk_vars, obs_vars>>
    /\ UNCHANGED <<script, alive, issued, args, main_result, stage_result, started,
                   failed, stage_vars>>

\* `if version: return True`
sm_version ==
    /\ pc = "sm_version"
    /\ IF truthy(rc_result)
       THEN /\ start_returns("True")
            /\ timing' = FALSE
            /\ elapsed' = 0
       ELSE /\ pc' = "sm_sleep"
            /\ UNCHANGED <<start_result, time_vars>>
    /\ UNCHANGED <<rc_vars, success, exit_code, cms_vars, environ, stop_result,
                   stop_return, stop_saw>>
    /\ mk_frame

\* The log line and time.sleep(5), then the next iteration.
sm_sleep ==
    /\ pc = "sm_sleep"
    /\ Pass(5)
    /\ pc' = "sm_while"
    /\ UNCHANGED <<rc_vars, timing, success, exit_code, cms_vars, mk_vars, obs_vars>>
    /\ UNCHANGED <<script, alive, issued, args, main_result, stage_result, started,
                   failed, stage_vars>>

StartMinikubeStep ==
    \/ sm_begin
    \/ sm_checked
    \/ sm_start_done
    \/ sm_while
    \/ sm_polled
    \/ sm_version
    \/ sm_sleep

\* stop_minikube -----------------------------------------------------------------

\* `if not check_minikube_status():`
st_begin ==
    /\ pc = "st_begin"
    /\ check_minikube_status("st_checked")
    /\ UNCHANGED <<rc_vars, time_vars, success, exit_code, environ, start_result,
                   stop_result, stop_return, stop_saw>>
    /\ mk_frame

\* What a status check showed: the query failed (run_command returned None),
\* or it succeeded and the check said running or not running.
status_seen(status, running) ==
    IF status.isNone THEN "failed"
    ELSE IF running THEN "running" ELSE "not_running"

\* Not running: return True.  Otherwise run `minikube stop`.
st_checked ==
    /\ pc = "st_checked"
    /\ IF ~cms_result
       THEN /\ stop_returns("True")
            /\ UNCHANGED rc_vars
       ELSE /\ run_command(StopCmd, MINIKUBE_WAIT_TIMEOUT, default_retry(script),
                           "st_stop_done")
            /\ UNCHANGED stop_result
    /\ stop_saw' = status_seen(rc_result, cms_result)
    /\ UNCHANGED <<time_vars, success, exit_code, cms_vars, environ, start_result,
                   stop_return>>
    /\ mk_frame

\* A stop that reports success whatever `minikube stop` did.
st_stop_done_optimistic ==
    /\ pc = "st_stop_done"
    /\ stop_returns("True")
    /\ UNCHANGED <<rc_vars, time_vars, success, exit_code, cms_vars, environ,
                   start_result, stop_return, stop_saw>>
    /\ mk_frame

\* `if result is None: return False`, else return True.
st_stop_done ==
    /\ pc = "st_stop_done"
    /\ stop_returns(IF rc_result.isNone THEN "False" ELSE "True")
    /\ UNCHANGED <<rc_vars, time_vars, success, exit_code, cms_vars, environ,
                   start_result, stop_return, stop_saw>>
    /\ mk_frame

StopMinikubeStep ==
    \/ st_begin
    \/ st_checked
    \/ st_stop_done

\* main ----------------------------------------------------------------------------

\* The frame of the statements of main that only move on.
mk_main_frame ==
    /\ UNCHANGED <<rc_vars, time_vars, cms_vars, environ, start_result, stop_result,
                   stop_saw>>
    /\ mk_frame

\* `if args.action == "start": ... elif ...`: the call of the chosen branch.
mk_main ==
    /\ pc = "mk_main"
    /\ pc' = IF mk_action = "start" THEN "sm_begin"
             ELSE IF mk_action = "status" THEN "mk_status"
             ELSE "st_begin"
    /\ stop_return' = IF mk_action = "stop" THEN "mk_stopped"
                      ELSE IF mk_action = "restart" THEN "mk_restart"
                      ELSE stop_return
    /\ UNCHANGED <<success, exit_code>>
    /\ mk_main_frame

\* A main whose restart also wants the stop to have succeeded.
mk_started_both ==
    /\ pc = "mk_started"
    /\ success' = (start_result = "True" /\ stop_result # "False")
    /\ pc' = "mk_exit"
    /\ UNCHANGED <<exit_code, stop_return>>
    /\ mk_main_frame

\* `success = start_minikube()`, then sys.exit.
mk_started ==
    /\ pc = "mk_started"
    /\ success' = (start_result = "True")
    /\ pc' = "mk_exit"
    /\ UNCHANGED <<exit_code, stop_return>>
    /\ mk_main_frame

\* `success = stop_minikube()`, then sys.exit.
mk_stopped ==
    /\ pc = "mk_stopped"
    /\ success' = (stop_result = "True")
    /\ pc' = "mk_exit"
    /\ UNCHANGED <<exit_code, stop_return>>
    /\ mk_main_frame

\* restart: stop_minikube()'s value is dropped; time.sleep(5); start_minikube().
mk_restart ==
    /\ pc = "mk_restart"
    /\ pc' = "sm_begin"
    /\ UNCHANGED <<rc_vars, timing, cms_vars, environ, start_result, stop_result,
                   stop_return, stop_saw, success, exit_code>>
    /\ Pass(5)
    /\ mk_frame

\* `status = check_minikube_status()`
mk_status ==
    /\ pc = "mk_status"
    /\ check_minikube_status("mk_status_done")
    /\ UNCHANGED <<rc_vars, time_vars, success, exit_code, environ, start_result,
                   stop_result, stop_return, stop_saw>>
    /\ mk_frame

\* The log line, then `success = True`.
mk_status_done ==
    /\ pc = "mk_status_done"
    /\ success' = TRUE
    /\ pc' = "mk_exit"
    /\ UNCHANGED <<exit_code, stop_return>>
    /\ mk_main_frame

\* `sys.exit(0 if success else 1)`
mk_exit ==
    /\ pc = "mk_exit"
    /\ exit_code' = IF success THEN 0 ELSE 1
    /\ pc' = "exited"
    /\ UNCHANGED <<success, stop_return>>
    /\ mk_main_frame

MinikubeMainStep ==
    \/ mk_main
    \/ mk_started
    \/ mk_stopped
    \/ mk_restart
    \/ mk_status
    \/ mk_status_done
    \/ mk_exit

InitMinikube ==
    /\ script = "minikube"
    /\ pc = "mk_main"
    /\ rc_cmd = "none"
    /\ rc_timeout = DefaultTimeout
    /\ rc_retry = 1
    /\ rc_attempt = 0
    /\ rc_return = "none"
    /\ rc_result = NoneVal
    /\ attempts = 0
    /\ sleeps = 0
    /\ outcomes = <<>>
    /\ last_stdout = <<>>
    /\ alive = 0
    /\ timing = FALSE
    /\ elapsed = 0
    /\ issued = {}
    /\ args = [skip_build |-> FALSE, skip_monitoring |-> FALSE, port_forward |-> FALSE]
    /\ mk_action \in Actions
    /\ InitCallers

NextMinikube ==
    \/ RunCommandStep
    \/ CheckStatusStep
    \/ StartMinikubeStep
    \/ StopMinikubeStep
    \/ MinikubeMainStep
    \/ uncaught

SpecMinikube == InitMinikube /\ [][NextMinikube]_vars

----------------------------------------------------------------------------
(* Either script, run once.                                                *)

InitScripts == InitDeploy \/ InitMinikube

NextScripts == NextDeploy \/ NextMinikube

SpecScripts == InitScripts /\ [][NextScripts]_vars

\* The operator's Ctrl+C: the steps a KeyboardInterrupt takes in
\* setup_port_forwarding. Nothing in the script makes them happen.
OperatorStep == pf_interrupt \/ pf_interrupt_early \/ pf_interrupt_again

\* The steps a script takes by itself.
ScriptStep == NextScripts /\ ~OperatorStep

\* Scheduling: a running script always takes its next step; the process a
\* subprocess.run waits for always exits or is killed at its timeout. A
\* Ctrl+C is never owed: `while True: time.sleep(1)` may sleep for ever.
SpecScriptsFair == SpecScripts /\ WF_vars(ScriptStep)

----------------------------------------------------------------------------
(* Claims about run_command, checked under SpecRunCommand.                 *)

Failure == {"nonzero", "timeout"}

AllFailed(os) == \A i \in 1 .. Len(os) : os[i] \in Failure

\* run_command has handed a value back to its caller.
Returned == pc = "returned"

\* C1: with a retry limit N >= 1, a call never makes more than N attempts,
\* and a call whose attempts all failed (non-zero exit or timeout, in any
\* mix) returns after exactly N attempts, with None.
C1_ExactlyNAttemptsThenNone ==
    /\ rc_retry >= 1 => attempts <= rc_retry
    /\ (Returned /\ rc_retry >= 1 /\ AllFailed(outcomes)) =>
          /\ attempts = rc_retry
          /\ Len(outcomes) = rc_retry
          /\ rc_result = NoneVal

C1_Witness ==
    /\ Returned
    /\ rc_retry = 3
    /\ outcomes = <<"nonzero", "timeout", "nonzero">>
    /\ attempts = 3
    /\ rc_result = NoneVal

\* s is t with whitespace removed from both ends, and from the ends only.
IsStripOf(t, s) ==
    /\ t = <<>> \/ (t[1] # " " /\ t[Len(t)] # " ")
    /\ \E i \in 0 .. Len(s) :
          /\ i + Len(t) <= Len(s)
          /\ SubSeq(s, i + 1, i + Len(t)) = t
          /\ \A k \in 1 .. Len(s) : (k <= i \/ k > i + Len(t)) => s[k] = " "

\* C2: an attempt that exits with status 0 ends the call: it is the last
\* attempt, every attempt before it failed, the call made exactly that many
\* attempts (K <= N), and the value returned is the stripped stdout of that
\* attempt, whatever the stdout is.
C2_SuccessOnAttemptK ==
    /\ \A i \in 1 .. Len(outcomes) : outcomes[i] = "zero" => i = Len(outcomes)
    /\ (outcomes # <<>> /\ outcomes[Len(outcomes)] = "zero") =>
          /\ pc \in {"returned", "idle"}
          /\ attempts = Len(outcomes)
          /\ attempts <= rc_retry
          /\ ~rc_result.isNone
          /\ IsStripOf(rc_result.text, last_stdout)

C2_Witness ==
    /\ Returned
    /\ rc_retry = 3
    /\ outcomes = <<"timeout", "zero">>
    /\ attempts = 2
    /\ last_stdout = <<" ", "x">>
    /\ rc_result = Str(<<"x">>)

\* C3: run_command never raises: whatever happens to an attempt, the call
\* ends by returning a value, not by an exception reaching the caller.
C3_NeverRaises == pc # "raised"

\* C4: run_command never returns None without having spawned the command at
\* least once, whatever the retry limit.
C4_AtLeastOneAttempt == (Returned /\ rc_result.isNone) => attempts >= 1

\* C5: in both scripts a run of N failed attempts has exactly N - 1 backoff
\* sleeps: none follows the last attempt.
C5_BackoffOnlyBetweenAttempts ==
    (Returned /\ rc_retry >= 1 /\ AllFailed(outcomes)) => sleeps = rc_retry - 1

\* C6: at most one process spawned by run_command is alive at any time, the
\* next attempt is spawned only when the previous process is gone, and no
\* process is left once the call has returned or raised.
C6_OneProcessAtATime ==
    /\ alive \in {0, 1}
    /\ pc = "rc_run" => alive = 0
    /\ pc \in {"returned", "raised", "idle"} => alive = 0

C6_Witness ==
    /\ pc = "rc_wait"
    /\ outcomes = <<"timeout">>
    /\ attempts = 2
    /\ alive = 1

----------------------------------------------------------------------------
(* Claims about deploy_app.main, checked under SpecDeploy.                 *)

\* main has returned (and the script may have exited).
MainDone == pc \in {"main_returned", "exited"}

\* The stage functions whose failure makes main return at once, and those
\* whose failure main records in `success` before going on.
FatalStages == {"create_namespaces", "build_react_app", "build_docker_image"}
SoftStages == {"deploy_monitoring", "deploy_application"}

\* Stage function a was called, and b was called after it.
StartedAfter(a, b) ==
    \E i, j \in 1 .. Len(started) : i < j /\ started[i] = a /\ started[j] = b

\* The statements main can be at before it calls its first stage function.
BeforeStages ==
    {"main_begin", "cms_query", "rc_for", "rc_run", "rc_wait", "rc_sleep",
     "rc_failed", "cms_parse", "main_checked", "main_returned", "exited", "raised",
     "aborted"}

\* C7: while check_minikube_status() has not reported running, no stage
\* function has been called and no command but the status query has been
\* issued; when it reported not running main returns False with nothing else
\* done.
C7_NoStageWithoutCluster ==
    /\ ~cms_result =>
          /\ started = <<>>
          /\ issued \subseteq {StatusCmd}
          /\ \A i \in 1 .. Len(Forwards) : forwards[i] = "unstarted"
          /\ pc \in BeforeStages
    /\ (~cms_result /\ MainDone) => main_result = "False"

C7_Witness ==
    /\ pc = "exited"
    /\ ~cms_result
    /\ issued = {StatusCmd}
    /\ rc_result = Str(<<"{Host:Stopped}">>)
    /\ main_result = "False"
    /\ exit_code = 1

\* C8: a fatal stage that failed is the last stage ever started, main then
\* only returns, and it returns False; after a failed deploy_monitoring,
\* deploy_application is still called.
C8_FatalHaltsSoftContinues ==
    /\ \A i \in 1 .. Len(started) :
          (started[i] \in FatalStages /\ started[i] \in failed) =>
             /\ i = Len(started)
             /\ pc \in {"main_namespaces", "main_react_built", "main_image_built",
                         "main_returned", "exited"}
             /\ MainDone => main_result = "False"
    /\ ("deploy_monitoring" \in failed /\ pc \notin {"main_monitored", "main_application"})
          => StartedAfter("deploy_monitoring", "deploy_application")

C8_Witness ==
    /\ pc = "exited"
    /\ started = <<"create_namespaces", "build_react_app">>
    /\ failed = {"build_react_app"}
    /\ main_result = "False"

\* C9, as claimed: the flag main returns is true exactly when the cluster
\* check passed and no fatal stage failed (deploy_application counted as
\* fatal); a failed deploy_monitoring does not turn it false.
C9_FlagIgnoresSoftFailure ==
    MainDone =>
        (main_result = "True" <=>
            (cms_result /\ failed \cap (FatalStages \cup {"deploy_application"}) = {}))

\* C9, amended: the flag main returns is true exactly when the cluster check
\* passed and no stage function returned False, fatal or soft; a failed
\* deploy_monitoring does turn it false.
C9_FlagIffNoStageFailed ==
    MainDone => (main_result = "True" <=> (cms_result /\ failed = {}))

C9_Witness ==
    /\ pc = "exited"
    /\ failed = {"deploy_monitoring"}
    /\ StartedAfter("deploy_monitoring", "deploy_application")
    /\ main_result = "False"
    /\ exit_code = 1

\* C10, as claimed, in the run where only the soft stage deploy_monitoring
\* failed: the flag is false and every later stage still had its opportunity
\* to run: deploy_application, and after it the port forwarding asked for.
C10_EveryLaterStageRuns ==
    (MainDone /\ failed = {"deploy_monitoring"}) =>
        /\ main_result = "False"
        /\ StartedAfter("deploy_monitoring", "deploy_application")
        /\ args.port_forward =>
              StartedAfter("deploy_application", "setup_port_forwarding")

\* C10, amended: after a soft stage failed the flag is false and
\* deploy_application still ran after a failed deploy_monitoring; the
\* port-forward stage alone is skipped, requested or not.
C10_SoftFailureFlagFalseDeployRuns ==
    (MainDone /\ failed \cap SoftStages # {}) =>
        /\ main_result = "False"
        /\ "deploy_monitoring" \in failed =>
              StartedAfter("deploy_monitoring", "deploy_application")
        /\ \A i \in 1 .. Len(started) : started[i] # "setup_port_forwarding"

C10_Witness ==
    /\ pc = "exited"
    /\ args.port_forward
    /\ started = <<"create_namespaces", "build_react_app", "build_docker_image",
                   "deploy_monitoring", "deploy_application">>
    /\ failed = {"deploy_monitoring"}
    /\ main_result = "False"

\* The order in which main calls its stage functions.
StageOrder ==
    <<"create_namespaces", "build_react_app", "build_docker_image",
      "deploy_monitoring", "deploy_application", "setup_port_forwarding">>

StageIndex(name) == CHOOSE k \in 1 .. Len(StageOrder) : StageOrder[k] = name

\* The stage function a statement belongs to, "main" for main's own.
StageOfPc(l) ==
    IF l \in {"ns_for", "ns_rendered", "ns_apply", "ns_apply_wait"}
        THEN "create_namespaces"
    ELSE IF l \in {"bra_begin", "bra_installed", "bra_built"} THEN "build_react_app"
    ELSE IF l \in {"bdi_begin", "bdi_built", "bdi_loaded"} THEN "build_docker_image"
    ELSE IF l \in {"dm_begin", "dm_prom_applied", "dm_graf_applied", "dm_while",
                   "dm_prom", "dm_prom_polled", "dm_graf", "dm_graf_polled", "dm_both"}
        THEN "deploy_monitoring"
    ELSE IF l \in {"da_begin", "da_applied", "da_while", "da_polled"}
        THEN "deploy_application"
    ELSE IF l \in {"pf_popen", "pf_logs", "pf_try", "pf_except", "pf_terminated"} THEN "setup_port_forwarding"
    ELSE "main"

\* The stage function that issues command c, "main" for the status query.
StageOfCmd(c) ==
    IF c \in {RenderCmd(1), RenderCmd(2), ApplyCmd(1), ApplyCmd(2)}
        THEN "create_namespaces"
    ELSE IF c \in {"npm install --legacy-peer-deps", "npm run build"}
        THEN "build_react_app"
    ELSE IF c \in {"docker build -t react-sre-app:latest .",
                   "minikube image load react-sre-app:latest"}
        THEN "build_docker_image"
    ELSE IF c \in {"kubectl apply -f prometheus-k8s.yaml",
                   "kubectl apply -f grafana-k8s.yaml", PromPodsCmd, GrafPodsCmd}
        THEN "deploy_monitoring"
    ELSE IF c \in {"kubectl apply -k overlays/env", AppPodsCmd}
        THEN "deploy_application"
    ELSE IF c \in {ForwardCmd(1), ForwardCmd(2), ForwardCmd(3)}
        THEN "setup_port_forwarding"
    ELSE "main"

InRunCommand == pc \in {"rc_for", "rc_run", "rc_wait", "rc_sleep", "rc_failed"}

\* The stage function whose statement, or whose run_command call, executes.
RunningStage == IF InRunCommand THEN StageOfPc(rc_return) ELSE StageOfPc(pc)

\* C11: the stage functions are called in the fixed order namespaces, build
\* artifact, build and load image, monitoring, application, port-forward,
\* none twice; the stage that executes is the one called last, so a later
\* stage is called only after the earlier one returned; and every command
\* that is issued belongs to the stage executing at that moment.
C11_StagesInOrderOneAtATime ==
    /\ \A i, j \in 1 .. Len(started) :
          i < j => StageIndex(started[i]) < StageIndex(started[j])
    /\ RunningStage # "main" =>
          (started # <<>> /\ started[Len(started)] = RunningStage)
    /\ pc \in {"rc_run", "rc_wait"} => StageOfCmd(rc_cmd) = RunningStage
    /\ \A c \in issued :
          StageOfCmd(c) = "main" \/ \E i \in 1 .. Len(started) : started[i] = StageOfCmd(c)

C11_Witness ==
    /\ pc = "exited"
    /\ started = StageOrder
    /\ \A i \in 1 .. Len(Forwards) : ForwardCmd(i) \in issued
    /\ main_result = "True"

\* C12: once setup_port_forwarding has been left, by its return, by an
\* interruption or by an exception, no port-forward process it started is
\* still running: all of them were told to terminate.
C12_AllForwardsTerminated ==
    pc \in {"interrupted", "raised", "main_finish", "main_returned", "exited"} =>
        \A i \in 1 .. Len(Forwards) : forwards[i] # "running"

----------------------------------------------------------------------------
(* minikube_control.py: start and stop.                                    *)

\* The statement main resumes at when stop_minikube returns.
StopReturned == pc \in {"mk_stopped", "mk_restart"}

\* C13: start_minikube called when check_minikube_status() reports running
\* returns True at once and does nothing else: the step that sees the running
\* status returns success without issuing a command, starting a process or
\* touching the environment, so that an action `start` that returned on that
\* path has issued the status query and nothing else.
C13_StartWhenRunningDoesNothing ==
    /\ [][(pc = "sm_checked" /\ cms_result) =>
             /\ start_result' = "True"
             /\ pc' = "mk_started"
             /\ UNCHANGED <<issued, attempts, alive, environ, rc_cmd>>]_vars
    /\ [](( /\ mk_action = "start"
            /\ pc \in {"mk_started", "mk_exit", "exited"}
            /\ rc_cmd = StatusCmd
            /\ cms_result ) =>
               /\ start_result = "True"
               /\ issued = {StatusCmd}
               /\ ~environ)

C13_Witness ==
    /\ mk_action = "start"
    /\ pc = "exited"
    /\ exit_code = 0
    /\ issued = {StatusCmd}
    /\ ~environ

\* C14: within one call of start_minikube `minikube start` is spawned at most
\* once.
C14_StartSpawnedAtMostOnce == rc_cmd = StartCmd => attempts <= 1

\* C15: stop_minikube returns True without issuing `minikube stop` when the
\* status check reports not running; otherwise it runs `minikube stop` and
\* returns True exactly when run_command returned its output (some attempt
\* exited with status 0), False when it returned None.
C15_StopIdempotent ==
    /\ [][(pc = "st_checked" /\ ~cms_result) =>
             /\ stop_result' = "True"
             /\ pc' = stop_return
             /\ UNCHANGED <<issued, attempts, alive, rc_cmd>>]_vars
    /\ [][(pc = "st_checked" /\ cms_result) =>
             (rc_cmd' = StopCmd /\ pc' = "rc_for" /\ rc_return' = "st_stop_done")]_vars
    /\ [](StopReturned =>
             IF rc_cmd = StopCmd
             THEN /\ StopCmd \in issued
                  /\ stop_result = "True" <=>
                        (outcomes # <<>> /\ outcomes[Len(outcomes)] = "zero")
                  /\ stop_result = "False" <=> AllFailed(outcomes)
             ELSE /\ rc_cmd = StatusCmd
                  /\ ~cms_result
                  /\ StopCmd \notin issued
                  /\ stop_result = "True")

C15_Witness ==
    /\ mk_action = "stop"
    /\ pc = "exited"
    /\ StopCmd \in issued
    /\ outcomes = <<"nonzero", "zero">>
    /\ exit_code = 0

----------------------------------------------------------------------------
(* check_minikube_status and the wait loops.                               *)

\* check_minikube_status has just returned to its caller.
StatusReturned == pc = cms_return /\ rc_cmd = StatusCmd

\* The status outputs that are a JSON object, and the one whose Host is Running.
JsonObjects ==
    {<<"{Host:Running}">>, <<"{Host:Stopped}">>, <<"{Host:Stopped,Kubelet:Running}">>,
     <<"{}">>}
HostRunning == {<<"{Host:Running}">>}

\* The text is no JSON document at all.
NotJson(t) == ~(Len(t) = 1 /\ t[1] \in JsonDocs)

\* C16: the value check_minikube_status returns, by the output the status
\* query returned: a JSON object gives true exactly when its Host is
\* "Running", whatever else the text holds; text that is no JSON gives true
\* exactly when it contains "Running"; None and the empty output give false.
C16_StatusByOutput ==
    StatusReturned =>
        /\ (rc_result.isNone \/ rc_result.text = <<>>) => ~cms_result
        /\ (~rc_result.isNone /\ rc_result.text \in JsonObjects) =>
              (cms_result <=> rc_result.text \in HostRunning)
        /\ (~rc_result.isNone /\ rc_result.text # <<>> /\ NotJson(rc_result.text)) =>
              (cms_result <=>
                 \E i \in 1 .. Len(rc_result.text) : rc_result.text[i] = "Running")

C16_Witness ==
    /\ StatusReturned
    /\ script = "minikube"
    /\ rc_result = Str(<<"{Host:Stopped,Kubelet:Running}">>)
    /\ ~cms_result

\* The labels of run_command's own statements.
RcLabels == {"rc_for", "rc_run", "rc_wait", "rc_sleep", "rc_failed"}

\* A caller calls run_command for the command c.
CallOf(c) == pc \notin RcLabels /\ pc' = "rc_for" /\ rc_cmd' = c

\* deploy_application's wait returns True / start_minikube's wait returns True.
DaLabels == {"da_begin", "da_applied", "da_while", "da_polled"}
DaReturnsTrue == pc \in DaLabels /\ pc' = "main_deployed" /\ stage_result'
SmLoopLabels == {"sm_start_done", "sm_while", "sm_polled", "sm_version", "sm_sleep"}
SmReturnsTrue == pc \in SmLoopLabels /\ start_result' = "True"

\* C17: a readiness wait returns True only out of a poll whose result
\* satisfied the predicate (so a poll has run), and at the first such poll:
\* the satisfying poll is followed by the return, and the loop starts a query
\* only from its loop head, which is reached only from the loop's entry or
\* from a poll that did not satisfy the predicate.  The predicate of
\* start_minikube's wait is: the status check reports running and the
\* `kubectl version` run after it returned output.
C17_TrueAtFirstSatisfiedPoll ==
    /\ [][DaReturnsTrue =>
             /\ pc = "da_polled"
             /\ rc_cmd = AppPodsCmd
             /\ attempts > 0
             /\ app_ready(rc_result)]_vars
    /\ [][(pc = "da_polled" /\ app_ready(rc_result)) =>
             (DaReturnsTrue /\ UNCHANGED <<issued, attempts, alive>>)]_vars
    /\ [][CallOf(AppPodsCmd) => pc = "da_while"]_vars
    /\ [][(pc # "da_while" /\ pc' = "da_while") =>
             (pc = "da_applied" \/ (pc = "da_polled" /\ ~app_ready(rc_result)))]_vars
    /\ [][SmReturnsTrue =>
             /\ pc = "sm_version"
             /\ rc_cmd = VersionCmd
             /\ attempts > 0
             /\ cms_result
             /\ truthy(rc_result)]_vars
    /\ [][(pc = "sm_version" /\ truthy(rc_result)) =>
             (SmReturnsTrue /\ pc' = "mk_started" /\ UNCHANGED <<issued, attempts, alive>>)]_vars
    /\ [][(pc \in SmLoopLabels /\ pc' = "cms_query") => pc = "sm_while"]_vars
    /\ [][(pc # "sm_while" /\ pc' = "sm_while") => pc \in {"sm_start_done", "sm_sleep"}]_vars
    /\ [][(pc # "sm_sleep" /\ pc' = "sm_sleep") =>
             \/ pc = "sm_polled" /\ ~cms_result
             \/ pc = "sm_version" /\ ~truthy(rc_result)]_vars

C17_Witness ==
    /\ pc = "mk_started"
    /\ start_result = "True"
    /\ rc_cmd = VersionCmd
    /\ truthy(rc_result)
    /\ cms_result
    /\ environ

\* C18: under fair scheduling each wait loop, once entered, eventually
\* returns, and returns False unless its predicate was satisfied.
C18_WaitLoopsReturnFalse ==
    /\ (pc = "dm_while") ~>
          (pc = "main_monitored" /\ (~stage_result \/ (prometheus_ready /\ grafana_ready)))
    /\ (pc = "da_while") ~>
          (pc = "main_deployed" /\ (~stage_result \/ app_ready(rc_result)))
    /\ (pc = "sm_while") ~>
          (pc = "mk_started" /\ (start_result = "False" \/ (cms_result /\ truthy(rc_result))))

\* The status and readiness queries of the two scripts.
QueryCmds == {StatusCmd, PromPodsCmd, GrafPodsCmd, AppPodsCmd}

\* C19: every status or readiness query is one attempt, without a retry and
\* without a backoff sleep.
C19_QueriesSingleAttempt ==
    rc_cmd \in QueryCmds => (attempts <= 1 /\ sleeps = 0)

\* `"Running" in status` on a returned str-or-None.
SaysRunning(v) == truthy(v) /\ contains(v.text, "Running")

\* The longest a query (timeout=10) or the sleep of the loop takes.
PollSeconds == 10

\* C20: in deploy_monitoring's wait each iteration passes both checks: a
\* service not yet ready is queried, whatever the other flag and the other
\* query's result, and the result of its query alone sets its flag; no
\* iteration starts at or after DEPLOY_TIMEOUT, so every query starts within
\* DEPLOY_TIMEOUT plus the rest of one iteration.
C20_ChecksIndependentAndBounded ==
    /\ [][(pc = "dm_prom" /\ ~prometheus_ready) => CallOf(PromPodsCmd)]_vars
    /\ [][(pc = "dm_graf" /\ ~grafana_ready) => CallOf(GrafPodsCmd)]_vars
    /\ [][pc = "dm_prom_polled" =>
             /\ prometheus_ready' = SaysRunning(rc_result)
             /\ grafana_ready' = grafana_ready
             /\ pc' = "dm_graf"]_vars
    /\ [][pc = "dm_graf_polled" =>
             /\ grafana_ready' = SaysRunning(rc_result)
             /\ prometheus_ready' = prometheus_ready
             /\ pc' = "dm_both"]_vars
    /\ [][(pc # "dm_prom" /\ pc' = "dm_prom") =>
             (pc = "dm_while" /\ elapsed < DEPLOY_TIMEOUT)]_vars
    /\ [][(pc = "dm_while" /\ elapsed >= DEPLOY_TIMEOUT) =>
             (pc' = "main_monitored" /\ ~stage_result')]_vars
    /\ []((timing /\ rc_cmd \in {PromPodsCmd, GrafPodsCmd} /\ pc \in {"rc_run", "rc_wait"}) =>
             elapsed < DEPLOY_TIMEOUT + PollSeconds)

C20_Witness ==
    /\ pc = "dm_both"
    /\ grafana_ready
    /\ ~prometheus_ready
    /\ rc_cmd = GrafPodsCmd
    /\ elapsed > DEPLOY_TIMEOUT - PollSeconds

----------------------------------------------------------------------------
(* deploy_app.py: readiness of the application, prerequisites, namespaces. *)

\* C21: deploy_application has returned True only out of a poll whose phase
\* list holds nothing but Running.
C21_ReadyOnlyWhenAllRunning ==
    (pc = "main_deployed" /\ stage_result /\ rc_cmd = AppPodsCmd) =>
        \A i \in 1 .. Len(rc_result.text) : rc_result.text[i] \in {"Running", " "}

\* The stage function that tests for the prerequisite.
StageOfPrerequisite(m) ==
    IF m = "REACT_APP_DIR" THEN "build_react_app"
    ELSE IF m = "Dockerfile" THEN "build_docker_image"
    ELSE IF m \in {"prometheus-k8s.yaml", "grafana-k8s.yaml"} THEN "deploy_monitoring"
    ELSE "deploy_application"

\* C22: once a prerequisite has been found missing no further stage is
\* executed (the stage that found it is the last one started; with the
\* cluster not running no stage is started at all), and no command of the
\* stage that needs it was issued before.
C22_MissingPrerequisiteAborts ==
    /\ \A m \in missing :
          /\ started # <<>>
          /\ started[Len(started)] = StageOfPrerequisite(m)
          /\ \A c \in issued : StageOfCmd(c) # StageOfPrerequisite(m)
    /\ (pc \in {"main_returned", "exited"} /\ ~cms_result) =>
          (started = <<>> /\ issued \subseteq {StatusCmd})

\* The apply process of a namespace is being started.
ApplyStarts == pc = "ns_apply" /\ pc' = "ns_apply_wait"

\* create_namespaces returns False.
NsFails == pc' = "main_namespaces" /\ ~stage_result' /\ UNCHANGED issued

\* C23: create_namespaces renders and applies react-sre-app, then monitoring:
\* an apply is started only with the text its namespace's render returned, a
\* namespace is taken up only after the one before was applied, and a failed
\* render, a failed apply or a timed-out apply returns False at once, so that
\* a failure at the first namespace leaves the second without any command.
C23_RenderThenApplyInOrder ==
    /\ [][ApplyStarts =>
             /\ rc_cmd = RenderCmd(ns_i)
             /\ ~rc_result.isNone
             /\ issued' = issued \cup {ApplyCmd(ns_i)}
             /\ apply_input' = Append(apply_input, rc_result.text)]_vars
    /\ [][(pc = "ns_rendered" /\ rc_result.isNone) => NsFails]_vars
    /\ [][pc = "ns_apply_wait" =>
             \/ NsFails /\ ns_i' = ns_i
             \/ pc' = "ns_for" /\ ns_i' = ns_i + 1 /\ UNCHANGED <<issued, failed>>]_vars
    /\ [](\A i \in 1 .. Len(Namespaces) :
             /\ ApplyCmd(i) \in issued => RenderCmd(i) \in issued
             /\ (i > 1 /\ RenderCmd(i) \in issued) => ApplyCmd(i - 1) \in issued
             /\ ("create_namespaces" \in failed /\ ns_i < i) =>
                   (RenderCmd(i) \notin issued /\ ApplyCmd(i) \notin issued))
    /\ []("create_namespaces" \in failed => Len(started) = 1)

C23_Witness ==
    /\ pc = "exited"
    /\ "create_namespaces" \in failed
    /\ ns_i = 1
    /\ ApplyCmd(1) \in issued
    /\ apply_input = <<<<"x">>>>
    /\ exit_code = 1

----------------------------------------------------------------------------
(* minikube_control.py: the start path, restart, and what stop observed.   *)

\* The run of an action has ended with sys.exit.
Exited == pc = "exited"

\* C24: where the cluster was not already running, start_minikube's wait is
\* entered only after `minikube start` returned its output, `kubectl version`
\* is called only at a poll whose status check said running, True is returned
\* only when that `kubectl version` returned output, and a failed or empty
\* `kubectl version` leads to the sleep and the next poll.
C24_StartThenStatusThenVersion ==
    /\ [][(pc = "sm_start_done" /\ pc' # pc) =>
             /\ rc_cmd = StartCmd
             /\ IF rc_result.isNone
                THEN start_result' = "False" /\ pc' = "mk_started"
                ELSE pc' = "sm_while" /\ start_result' = start_result]_vars
    /\ [][CallOf(VersionCmd) =>
             (pc = "sm_polled" /\ rc_cmd = StatusCmd /\ cms_result)]_vars
    /\ [][SmReturnsTrue =>
             /\ pc = "sm_version"
             /\ rc_cmd = VersionCmd
             /\ outcomes # <<>> /\ outcomes[Len(outcomes)] = "zero"
             /\ ~rc_result.isNone]_vars
    /\ [][(pc = "sm_version" /\ ~truthy(rc_result)) =>
             (pc' = "sm_sleep" /\ start_result' = start_result)]_vars
    /\ []((start_result = "True" /\ environ) =>
             {StartCmd, StatusCmd, VersionCmd} \subseteq issued)

C24_Witness ==
    /\ mk_action = "start"
    /\ Exited
    /\ exit_code = 0
    /\ environ
    /\ rc_cmd = VersionCmd
    /\ outcomes = <<"timeout", "zero">>

\* The labels of start_minikube's own statements.
SmLabels == {"sm_begin", "sm_checked"} \cup SmLoopLabels

\* C25: restart runs stop_minikube to its return before start_minikube
\* begins, and exits with 0 exactly when start_minikube returned True,
\* whatever stop_minikube returned.
C25_RestartExitIsStartResult ==
    mk_action = "restart" =>
        /\ (pc \in SmLabels \/ start_result # "none") => stop_result # "none"
        /\ Exited =>
              /\ start_result # "none"
              /\ exit_code = 0 <=> start_result = "True"
              /\ exit_code = 1 <=> start_result = "False"

C25_Witness ==
    /\ mk_action = "restart"
    /\ Exited
    /\ stop_result = "False"
    /\ start_result = "True"
    /\ exit_code = 0

\* C27: stop_minikube has returned True only if its status query succeeded
\* without reporting running, or the query reported running and
\* `minikube stop` was run (and, the result being True, succeeded).
C27_StopSuccessOnlyIfObserved ==
    stop_result = "True" =>
        \/ stop_saw = "not_running"
        \/ stop_saw = "running" /\ StopCmd \in issued

\* C28: a restart that exits with 0 has stopped the cluster or seen it not
\* running, and has then run `minikube start` with success.
C28_RestartCycles ==
    (mk_action = "restart" /\ Exited /\ exit_code = 0) =>
        /\ stop_result = "True"
        /\ stop_saw \in {"running", "not_running"}
        /\ StartCmd \in issued

----------------------------------------------------------------------------
(* deploy_app.py: exit code, port-forwarding, the monitoring ready flags.   *)

\* main has called the stage function.
HasStarted(name) == \E i \in 1 .. Len(started) : started[i] = name

\* Some port-forward process has been started.
SomeForwardStarted == \E i \in 1 .. Len(Forwards) : forwards[i] # "unstarted"

\* The run is over: by sys.exit, or by a KeyboardInterrupt that nothing caught.
RunOver == Exited \/ (pc = "aborted" /\ HasStarted("setup_port_forwarding") /\ exit_code > 1)

\* The success flag was true when the run ended in or after main's last
\* statements: main returned it, or the run ended inside port-forwarding,
\* which main enters only with the flag true and which does not change it.
FlagTrueAtEnd ==
    success /\ (main_result = "True" \/ HasStarted("setup_port_forwarding"))

\* C26: deploy_app.py ends with status 0 exactly when the success flag was
\* true at the end of the run, port-forwarding interrupted or not; every
\* other run that reaches sys.exit ends with 1.
C26_ExitCodeIsFlag ==
    (script = "deploy" /\ RunOver) =>
        /\ exit_code = 0 <=> FlagTrueAtEnd
        /\ exit_code # 0 => (exit_code = 1 \/ ~Exited)

\* C29: a port-forward process exists only if --port-forward was given and
\* the flag was true after deploy_application; once deploy_monitoring or
\* deploy_application has failed none is ever started.
C29_ForwardOnlyOnSuccess ==
    /\ SomeForwardStarted =>
          /\ args.port_forward
          /\ success
          /\ HasStarted("deploy_application")
          /\ failed = {}
    /\ (failed \cap SoftStages # {}) =>
          /\ ~SomeForwardStarted
          /\ \A i \in 1 .. Len(Forwards) : ForwardCmd(i) \notin issued
          /\ pc \notin {"pf_popen", "pf_logs", "pf_try", "pf_except", "pf_terminated"}

C29_Witness ==
    /\ pc = "pf_try"
    /\ args.port_forward
    /\ ~args.skip_monitoring
    /\ \A i \in 1 .. Len(Forwards) : forwards[i] = "running"

\* The statements of deploy_monitoring's wait loop.
DmLoopLabels == {"dm_while", "dm_prom", "dm_prom_polled", "dm_graf", "dm_graf_polled", "dm_both"}

\* C30: the ready flags of deploy_monitoring only go from false to true, and
\* only at a poll of the service that printed Running; a service whose flag
\* is true is not queried again; the wait returns True exactly when both
\* flags are true, each set at a poll of its own.
C30_ReadyFlagsMonotonic ==
    /\ [][prometheus_ready => prometheus_ready']_vars
    /\ [][grafana_ready => grafana_ready']_vars
    /\ [][(~prometheus_ready /\ prometheus_ready') =>
             (pc = "dm_prom_polled" /\ rc_cmd = PromPodsCmd /\ SaysRunning(rc_result))]_vars
    /\ [][(~grafana_ready /\ grafana_ready') =>
             (pc = "dm_graf_polled" /\ rc_cmd = GrafPodsCmd /\ SaysRunning(rc_result))]_vars
    /\ [][CallOf(PromPodsCmd) => ~prometheus_ready]_vars
    /\ [][CallOf(GrafPodsCmd) => ~grafana_ready]_vars
    /\ [][(pc \in DmLoopLabels /\ pc' = "main_monitored") =>
             (stage_result' <=> (prometheus_ready /\ grafana_ready))]_vars
    /\ [][(pc = "dm_both" /\ prometheus_ready /\ grafana_ready) =>
             (pc' = "main_monitored" /\ stage_result')]_vars

C30_Witness ==
    /\ pc = "main_monitored"
    /\ stage_result
    /\ prometheus_ready
    /\ grafana_ready
    /\ rc_cmd = PromPodsCmd

====
